---- MODULE Spec2Model ----
(***************************************************************************)
(* Model of the AppService operator (controllers/appservice_controller.go, *)
(* pkg/reconciler/reconciler.go).  The store holds one AppService record,  *)
(* its Deployment (workload) and its Service (endpoint), all under one     *)
(* key.  A Reconcile pass is a sequence of store operations; every store   *)
(* operation is one step, so that other writers may act between a pass's   *)
(* read and its write, and every operation may fail.                       *)
(* passes and ext count the passes started and the writes of other         *)
(* writers; start is the store as the operator found it.                   *)
(***************************************************************************)
EXTENDS Integers, Sequences, FiniteSets, TLC

VARIABLES app, dep, svc, now, pass, passes, ext, start

vars == <<app, dep, svc, now, pass, passes, ext, start>>

\* ------------------------------------------------------------------ bounds
MaxPasses == 2
MaxExt == 1
MaxTime == 2
MaxQuietPasses == 3

\* --------------------------------------------------------------- constants
RequeueAfterSeconds == 30

Finalizer == "example.com/finalizer"
OtherFinalizer == "other.io/finalizer"

Name == "a"
Namespace == "default"

ReplicaValues == {-1, 0, 3, 5}
AvailValues == {0, 3, 5}
Images == {"x:1", "x:2"}
Ports == {0, 80, 8080}

Workers == {1, 2}
Serial == {1}

Absent == [exists |-> FALSE]

\* errors a store operation can return
NotFound == "NotFound"
Conflict == "Conflict"
AlreadyExists == "AlreadyExists"
TransientIO == "TransientIO"
Faults == {"ok", TransientIO}

\* ------------------------------------------------------ ctrl.Result values
Done == [requeue |-> FALSE, requeueAfter |-> 0]
Requeue == [requeue |-> TRUE, requeueAfter |-> 0]
RequeueAfter(duration) == [requeue |-> FALSE, requeueAfter |-> duration]

\* HandleError: a non-nil error is returned with the empty result
HandleError(err) == [result |-> Done, err |-> err]

\* --------------------------------------------------------------- finalizers
\* faulty variant: only the first entry is looked at
ContainsFinalizer_First(a, f) == a.finalizers # <<>> /\ a.finalizers[1] = f

ContainsFinalizer(a, f) == \E i \in 1..Len(a.finalizers) : a.finalizers[i] = f

AddFinalizer(a, f) ==
  IF ContainsFinalizer(a, f) THEN a
  ELSE [a EXCEPT !.finalizers = Append(@, f)]

RemoveFinalizer_Keeps(a, f) == a

RemoveFinalizer(a, f) ==
  [a EXCEPT !.finalizers = SelectSeq(@, LAMBDA e : e # f)]

\* cleanupResources only logs and returns nil
cleanupResources(a) == "ok"

\* --------------------------------------------------------------- synthesizer
labelsFor(a) == [app |-> a.name]

OwnerRef(a) == [kind |-> "AppService", name |-> a.name, controller |-> TRUE]

\* spec.environment is a map from names to values, held as the set of its
\* entries; spec.resources are the cpu and memory strings
NoEnv == {}
EnvAB == {[name |-> "A", value |-> "1"], [name |-> "B", value |-> "2"]}

NoResources == [cpu |-> "", memory |-> ""]
CpuOnly == [cpu |-> "100m", memory |-> ""]

\* line 122: the sequences in which a range over the map m may visit its
\* entries; the order is unspecified and chosen anew at each range
RangeOrders(m) ==
  {o \in [1..Cardinality(m) -> m] :
     \A i, j \in 1..Cardinality(m) : o[i] = o[j] => i = j}

\* lines 120-126: the container's env is set only for a non-empty map, to
\* the entries in the order the range visited them
EnvVars(a, visited) ==
  IF Cardinality(a.spec.environment) > 0 THEN visited ELSE <<>>

\* lines 128-133: with a cpu or memory string the container gets resource
\* requirements with empty requests and limits; the strings are not copied
ContainerResources(a) ==
  IF a.spec.resources.cpu # "" \/ a.spec.resources.memory # ""
  THEN [requests |-> "empty", limits |-> "empty"]
  ELSE [requests |-> "nil", limits |-> "nil"]

\* faulty variant: the replica count is not copied (the store's default of 1 applies)
deploymentForAppService_DefaultReplicas(a, visited) ==
  [exists |-> TRUE, name |-> a.name, namespace |-> a.namespace,
   replicas |-> 1, image |-> a.spec.image,
   containerPort |-> a.spec.port,
   env |-> EnvVars(a, visited), resources |-> ContainerResources(a),
   selector |-> labelsFor(a), podLabels |-> labelsFor(a),
   owner |-> OwnerRef(a), availableReplicas |-> 0, rv |-> 0]

\* faulty variant: a record reported Running is synthesized with the replica
\* count of its status
deploymentForAppService_FromStatus(a, visited) ==
  [exists |-> TRUE, name |-> a.name, namespace |-> a.namespace,
   replicas |-> IF a.status.phase = "Running"
                THEN a.status.availableReplicas ELSE a.spec.replicas,
   image |-> a.spec.image,
   containerPort |-> a.spec.port,
   env |-> EnvVars(a, visited), resources |-> ContainerResources(a),
   selector |-> labelsFor(a), podLabels |-> labelsFor(a),
   owner |-> OwnerRef(a), availableReplicas |-> 0, rv |-> 0]

\* lines 110-152; visited is the order in which the range at line 122 went
\* over spec.environment
deploymentForAppService(a, visited) ==
  [exists |-> TRUE, name |-> a.name, namespace |-> a.namespace,
   replicas |-> a.spec.replicas, image |-> a.spec.image,
   containerPort |-> a.spec.port,
   env |-> EnvVars(a, visited), resources |-> ContainerResources(a),
   selector |-> labelsFor(a), podLabels |-> labelsFor(a),
   owner |-> OwnerRef(a), availableReplicas |-> 0, rv |-> 0]

\* faulty variant: the Service selects on another label value
serviceForAppService_OtherSelector(a) ==
  [exists |-> TRUE, name |-> a.name, namespace |-> a.namespace,
   port |-> a.spec.port, targetPort |-> a.spec.port,
   selector |-> [app |-> a.namespace], owner |-> OwnerRef(a), rv |-> 0]

serviceForAppService(a) ==
  [exists |-> TRUE, name |-> a.name, namespace |-> a.namespace,
   port |-> a.spec.port, targetPort |-> a.spec.port,
   selector |-> labelsFor(a), owner |-> OwnerRef(a), rv |-> 0]

\* ------------------------------------------------------------------ status
EmptyStatus ==
  [phase |-> "", availableReplicas |-> 0, conditions |-> <<>>,
   lastReconcileTime |-> 0]

Min(S) == CHOOSE x \in S : \A y \in S : x <= y

\* faulty variant: an entry of the type is left alone whatever its status
updateCondition_NoReplace(a, condType, status, reason, message, t) ==
  LET condition == [type |-> condType, status |-> status, reason |-> reason,
                    message |-> message, lastTransitionTime |-> t]
      conds == a.status.conditions
  IN IF \E i \in 1..Len(conds) : conds[i].type = condType
     THEN a
     ELSE [a EXCEPT !.status.conditions = Append(@, condition)]

\* faulty variant: an entry of the type is replaced whatever its status
updateCondition_AlwaysReplace(a, condType, status, reason, message, t) ==
  LET condition == [type |-> condType, status |-> status, reason |-> reason,
                    message |-> message, lastTransitionTime |-> t]
      conds == a.status.conditions
      idx == {i \in 1..Len(conds) : conds[i].type = condType}
  IN IF idx # {}
     THEN [a EXCEPT !.status.conditions[Min(idx)] = condition]
     ELSE [a EXCEPT !.status.conditions = Append(@, condition)]

\* faulty variant: the entry is appended whether or not the type is present
updateCondition_Appends(a, condType, status, reason, message, t) ==
  [a EXCEPT !.status.conditions =
     Append(@, [type |-> condType, status |-> status, reason |-> reason,
                message |-> message, lastTransitionTime |-> t])]

\* faulty variant: an entry whose status changes is taken out and put at the end
updateCondition_MovesToEnd(a, condType, status, reason, message, t) ==
  LET condition == [type |-> condType, status |-> status, reason |-> reason,
                    message |-> message, lastTransitionTime |-> t]
      conds == a.status.conditions
      idx == {i \in 1..Len(conds) : conds[i].type = condType}
  IN IF idx # {} /\ conds[Min(idx)].status = status
     THEN a
     ELSE [a EXCEPT !.status.conditions =
             Append(SelectSeq(@, LAMBDA c : c.type # condType), condition)]

updateCondition(a, condType, status, reason, message, t) ==
  LET condition == [type |-> condType, status |-> status, reason |-> reason,
                    message |-> message, lastTransitionTime |-> t]
      conds == a.status.conditions
      idx == {i \in 1..Len(conds) : conds[i].type = condType}
  IN IF idx # {}
     THEN IF conds[Min(idx)].status # status
          THEN [a EXCEPT !.status.conditions[Min(idx)] = condition]
          ELSE a
     ELSE [a EXCEPT !.status.conditions = Append(@, condition)]

\* faulty variant: the phase written when replicas are missing is "Unknown"
ComputeStatus_Unknown(a, d, t, t2) ==
  LET a1 == [a EXCEPT !.status.availableReplicas = d.availableReplicas,
                      !.status.lastReconcileTime = t]
  IN IF d.availableReplicas = a.spec.replicas
     THEN updateCondition([a1 EXCEPT !.status.phase = "Running"], "Ready",
                          "True", "DeploymentReady",
                          "All replicas are available", t2)
     ELSE updateCondition([a1 EXCEPT !.status.phase = "Unknown"], "Ready",
                          "False", "DeploymentNotReady",
                          "Waiting for replicas", t2)

\* lines 92-101 of Reconcile: the status computed from the fetched workload.
\* The clock is read twice: t at line 93 for lastReconcileTime and t2 inside
\* updateCondition (line 182) for the condition's lastTransitionTime.
ComputeStatus(a, d, t, t2) ==
  LET a1 == [a EXCEPT !.status.availableReplicas = d.availableReplicas,
                      !.status.lastReconcileTime = t]
  IN IF d.availableReplicas = a.spec.replicas
     THEN updateCondition([a1 EXCEPT !.status.phase = "Running"], "Ready",
                          "True", "DeploymentReady",
                          "All replicas are available", t2)
     ELSE updateCondition([a1 EXCEPT !.status.phase = "Pending"], "Ready",
                          "False", "DeploymentNotReady",
                          "Waiting for replicas", t2)

\* ------------------------------------------------------------------- store
\* client.Get
StoreGet(stored, fault) ==
  IF fault # "ok" THEN [err |-> fault, obj |-> Absent]
  ELSE IF ~stored.exists THEN [err |-> NotFound, obj |-> Absent]
  ELSE [err |-> "ok", obj |-> stored]

\* the version stamp the store gives a created object: one no earlier object
\* under the key has had (1 while no other writer has acted)
NewVersion == 1 + 10 * ext

\* client.Create: rejected when the key is taken
StoreCreate(stored, obj, fault) ==
  IF fault # "ok" THEN [err |-> fault, obj |-> stored]
  ELSE IF stored.exists THEN [err |-> AlreadyExists, obj |-> stored]
  ELSE [err |-> "ok", obj |-> [obj EXCEPT !.rv = NewVersion]]

\* faulty variant: the version stamp is not compared, the last write wins
StoreUpdate_LastWriteWins(stored, obj, fault) ==
  IF fault # "ok" THEN [err |-> fault, obj |-> stored]
  ELSE IF ~stored.exists THEN [err |-> NotFound, obj |-> stored]
  ELSE [err |-> "ok", obj |-> [obj EXCEPT !.rv = stored.rv + 1]]

\* client.Update: rejected unless obj carries the stored version stamp
StoreUpdate(stored, obj, fault) ==
  IF fault # "ok" THEN [err |-> fault, obj |-> stored]
  ELSE IF ~stored.exists THEN [err |-> NotFound, obj |-> stored]
  ELSE IF obj.rv # stored.rv THEN [err |-> Conflict, obj |-> stored]
  ELSE [err |-> "ok", obj |-> [obj EXCEPT !.rv = stored.rv + 1]]

\* faulty variant: the record is written whatever version stamp the copy carries
RecordUpdate_Unchecked(stored, obj, fault) ==
  LET r == StoreUpdate(stored,
                       IF stored.exists
                       THEN [obj EXCEPT !.status = stored.status,
                                        !.rv = stored.rv]
                       ELSE obj,
                       fault)
  IN IF r.err = "ok" /\ r.obj.deleting /\ r.obj.finalizers = <<>>
     THEN [err |-> "ok", obj |-> Absent]
     ELSE r

\* the store's answer to an Update of the record, which the client decodes
\* into the caller's copy: the status subresource is not written by it
RecordWrite(stored, obj, fault) ==
  StoreUpdate(stored,
              IF stored.exists
              THEN [obj EXCEPT !.status = stored.status]
              ELSE obj,
              fault)

\* Update of the record: a record marked for deletion whose last finalizer
\* goes is removed
RecordUpdate(stored, obj, fault) ==
  LET r == RecordWrite(stored, obj, fault)
  IN IF r.err = "ok" /\ r.obj.deleting /\ r.obj.finalizers = <<>>
     THEN [err |-> "ok", obj |-> Absent]
     ELSE r

\* Status().Update of the record: only the status is written
RecordStatusUpdate(stored, obj, fault) ==
  StoreUpdate(stored,
              IF stored.exists
              THEN [stored EXCEPT !.status = obj.status, !.rv = obj.rv]
              ELSE obj,
              fault)

\* -------------------------------------------------------------------- pass
\* A worker's pass: pc names the store operation it issues next; appService
\* and deployment are its in-memory copies; fetched is the record as read;
\* ops logs the store operations issued with each one's outcome; prev is the
\* last operation of the worker's previous pass ("Error" if that pass failed).
IdlePass ==
  [pc |-> "idle", appService |-> Absent, fetched |-> Absent,
   deployment |-> Absent, ops |-> <<>>, result |-> Done, err |-> "ok",
   prev |-> ""]

Finish(p, result, err) ==
  [p EXCEPT !.pc = "done", !.result = result, !.err = err]

Fail(p, err) ==
  LET h == HandleError(err) IN Finish(p, h.result, h.err)

Log(p, op, err) == [p EXCEPT !.ops = Append(@, [op |-> op, err |-> err])]

LastOp(p) == IF p.ops = <<>> THEN "" ELSE p.ops[Len(p.ops)].op

NewPass(p) ==
  [IdlePass EXCEPT !.pc = "GetApp",
                   !.prev = IF p.err # "ok" THEN "Error" ELSE LastOp(p)]

\* faulty variant: the marker is added whether or not deletion is requested
AfterFetch_AddsWhenDeleting(p, a) ==
  LET q == [p EXCEPT !.appService = a, !.fetched = a]
  IN IF ~ContainsFinalizer(a, Finalizer)
     THEN [q EXCEPT !.appService = AddFinalizer(a, Finalizer),
                    !.pc = "UpdateAppAdd"]
     ELSE IF ~a.deleting
     THEN [q EXCEPT !.pc = "GetDep"]
     ELSE [q EXCEPT !.appService = RemoveFinalizer(a, Finalizer),
                    !.pc = "UpdateAppRemove"]

\* faulty variant: a record marked for deletion is updated whether or not it
\* carries the marker
AfterFetch_AlwaysUpdates(p, a) ==
  LET q == [p EXCEPT !.appService = a, !.fetched = a]
  IN IF ~a.deleting
     THEN IF ~ContainsFinalizer(a, Finalizer)
          THEN [q EXCEPT !.appService = AddFinalizer(a, Finalizer),
                         !.pc = "UpdateAppAdd"]
          ELSE [q EXCEPT !.pc = "GetDep"]
     ELSE [q EXCEPT !.appService = RemoveFinalizer(a, Finalizer),
                    !.pc = "UpdateAppRemove"]

\* lines 38-56: the branch taken once the record is fetched
AfterFetch(p, a) ==
  LET q == [p EXCEPT !.appService = a, !.fetched = a]
  IN IF ~a.deleting
     THEN IF ~ContainsFinalizer(a, Finalizer)
          THEN [q EXCEPT !.appService = AddFinalizer(a, Finalizer),
                         !.pc = "UpdateAppAdd"]
          ELSE [q EXCEPT !.pc = "GetDep"]
     ELSE IF ContainsFinalizer(a, Finalizer)
          THEN IF cleanupResources(a) # "ok"
               THEN Fail(q, cleanupResources(a))
               ELSE [q EXCEPT !.appService = RemoveFinalizer(a, Finalizer),
                              !.pc = "UpdateAppRemove"]
          ELSE Finish(q, Done, "ok")

\* faulty variant: not-found from the fetch of the record is returned as an error
GetApp_NotFoundIsError(w, fault, limit) ==
  /\ pass[w].pc \in {"idle", "done"}
  /\ passes < limit
  /\ passes' = passes + 1
  /\ LET r == StoreGet(app, fault)
         p == Log(NewPass(pass[w]), "GetApp", r.err)
     IN pass' = [pass EXCEPT ![w] =
          IF r.err # "ok" THEN Fail(p, r.err)
          ELSE AfterFetch(p, r.obj)]
  /\ UNCHANGED <<start, app, dep, svc, now, ext>>

\* lines 30-36: r.Get of the record; at most limit passes are started
GetApp(w, fault, limit) ==
  /\ pass[w].pc \in {"idle", "done"}
  /\ passes < limit
  /\ passes' = passes + 1
  /\ LET r == StoreGet(app, fault)
         p == Log(NewPass(pass[w]), "GetApp", r.err)
     IN pass' = [pass EXCEPT ![w] =
          IF r.err = NotFound THEN Finish(p, Done, "ok")
          ELSE IF r.err # "ok" THEN Fail(p, r.err)
          ELSE AfterFetch(p, r.obj)]
  /\ UNCHANGED <<start, app, dep, svc, now, ext>>

\* faulty variant: the pass returns immediate retry once the finalizer is persisted
UpdateAppAdd_Returns(w, fault) ==
  /\ pass[w].pc = "UpdateAppAdd"
  /\ LET r == RecordUpdate(app, pass[w].appService, fault)
         p == Log(pass[w], "UpdateApp", r.err)
     IN /\ app' = r.obj
        /\ pass' = [pass EXCEPT ![w] =
             IF r.err # "ok" THEN Fail(p, r.err)
             ELSE Finish([p EXCEPT !.appService = r.obj], Requeue, "ok")]
  /\ UNCHANGED <<start, dep, svc, now, passes, ext>>

\* lines 40-43: r.Update of the record with the finalizer added
UpdateAppAdd(w, fault) ==
  /\ pass[w].pc = "UpdateAppAdd"
  /\ LET r == RecordUpdate(app, pass[w].appService, fault)
         p == Log(pass[w], "UpdateApp", r.err)
     IN /\ app' = r.obj
        /\ pass' = [pass EXCEPT ![w] =
             IF r.err # "ok" THEN Fail(p, r.err)
             ELSE [p EXCEPT !.appService = r.obj, !.pc = "GetDep"]]
  /\ UNCHANGED <<start, dep, svc, now, passes, ext>>

\* lines 50-55: r.Update of the record with the finalizer removed; the
\* pass's copy takes the store's answer, also when the record is removed
UpdateAppRemove(w, fault) ==
  /\ pass[w].pc = "UpdateAppRemove"
  /\ LET r == RecordUpdate(app, pass[w].appService, fault)
         a == RecordWrite(app, pass[w].appService, fault).obj
         p == Log(pass[w], "UpdateApp", r.err)
     IN /\ app' = r.obj
        /\ pass' = [pass EXCEPT ![w] =
             IF r.err # "ok" THEN Fail(p, r.err)
             ELSE Finish([p EXCEPT !.appService = a], Done, "ok")]
  /\ UNCHANGED <<start, dep, svc, now, passes, ext>>

\* faulty variant: the replica field of the fetched Deployment is not patched
GetDep_NoPatch(w, fault) ==
  /\ pass[w].pc = "GetDep"
  /\ LET r == StoreGet(dep, fault)
         p == Log(pass[w], "GetDep", r.err)
     IN pass' = [pass EXCEPT ![w] =
          IF r.err = NotFound THEN [p EXCEPT !.pc = "CreateDep"]
          ELSE IF r.err # "ok" THEN Fail(p, r.err)
          ELSE IF r.obj.replicas # p.appService.spec.replicas
          THEN [p EXCEPT !.deployment = r.obj, !.pc = "UpdateDep"]
          ELSE [p EXCEPT !.deployment = r.obj, !.pc = "GetSvc"]]
  /\ UNCHANGED <<start, app, dep, svc, now, passes, ext>>

\* lines 58-72: r.Get of the Deployment and the replica comparison
GetDep(w, fault) ==
  /\ pass[w].pc = "GetDep"
  /\ LET r == StoreGet(dep, fault)
         p == Log(pass[w], "GetDep", r.err)
     IN pass' = [pass EXCEPT ![w] =
          IF r.err = NotFound THEN [p EXCEPT !.pc = "CreateDep"]
          ELSE IF r.err # "ok" THEN Fail(p, r.err)
          ELSE IF r.obj.replicas # p.appService.spec.replicas
          THEN [p EXCEPT !.deployment =
                           [r.obj EXCEPT !.replicas = p.appService.spec.replicas],
                         !.pc = "UpdateDep"]
          ELSE [p EXCEPT !.deployment = r.obj, !.pc = "GetSvc"]]
  /\ UNCHANGED <<start, app, dep, svc, now, passes, ext>>

\* lines 61-66: r.Create of the synthesized Deployment
CreateDep(w, fault) ==
  /\ pass[w].pc = "CreateDep"
  /\ \E visited \in RangeOrders(pass[w].appService.spec.environment) :
       LET r == StoreCreate(dep,
                            deploymentForAppService(pass[w].appService, visited),
                            fault)
           p == Log(pass[w], "CreateDep", r.err)
       IN /\ dep' = r.obj
          /\ pass' = [pass EXCEPT ![w] =
               IF r.err # "ok" THEN Fail(p, r.err)
               ELSE Finish(p, Requeue, "ok")]
  /\ UNCHANGED <<start, app, svc, now, passes, ext>>

\* faulty variant: the update sends a freshly synthesized Deployment
UpdateDep_Resynthesized(w, fault) ==
  /\ pass[w].pc = "UpdateDep"
  /\ \E visited \in RangeOrders(pass[w].appService.spec.environment) :
       LET r == StoreUpdate(dep,
                            [deploymentForAppService(pass[w].appService, visited)
                               EXCEPT !.rv = pass[w].deployment.rv],
                            fault)
           p == Log(pass[w], "UpdateDep", r.err)
       IN /\ dep' = r.obj
          /\ pass' = [pass EXCEPT ![w] =
               IF r.err # "ok" THEN Fail(p, r.err)
               ELSE Finish([p EXCEPT !.deployment = r.obj], Requeue, "ok")]
  /\ UNCHANGED <<start, app, svc, now, passes, ext>>

\* lines 73-76: r.Update of the Deployment with the replica field patched
UpdateDep(w, fault) ==
  /\ pass[w].pc = "UpdateDep"
  /\ LET r == StoreUpdate(dep, pass[w].deployment, fault)
         p == Log(pass[w], "UpdateDep", r.err)
     IN /\ dep' = r.obj
        /\ pass' = [pass EXCEPT ![w] =
             IF r.err # "ok" THEN Fail(p, r.err)
             ELSE Finish([p EXCEPT !.deployment = r.obj], Requeue, "ok")]
  /\ UNCHANGED <<start, app, svc, now, passes, ext>>

\* faulty variant: any error of the fetch is taken for not-found
GetSvc_AnyErrorIsAbsent(w, fault) ==
  /\ pass[w].pc = "GetSvc"
  /\ LET r == StoreGet(svc, fault)
         p == Log(pass[w], "GetSvc", r.err)
     IN pass' = [pass EXCEPT ![w] =
          IF r.err # "ok" THEN [p EXCEPT !.pc = "CreateSvc"]
          ELSE [p EXCEPT !.pc = "StatusUpdate"]]
  /\ UNCHANGED <<start, app, dep, svc, now, passes, ext>>

\* faulty variant: a Service found with another port is brought to the record's
GetSvc_SyncsPort(w, fault) ==
  /\ pass[w].pc = "GetSvc"
  /\ LET r == StoreGet(svc, fault)
         p == Log(pass[w], "GetSvc", r.err)
     IN /\ pass' = [pass EXCEPT ![w] =
             IF r.err = NotFound THEN [p EXCEPT !.pc = "CreateSvc"]
             ELSE IF r.err # "ok" THEN Fail(p, r.err)
             ELSE [p EXCEPT !.pc = "StatusUpdate"]]
        /\ svc' = IF r.err = "ok" /\ svc.port # p.appService.spec.port
                  THEN [svc EXCEPT !.port = p.appService.spec.port,
                                   !.targetPort = p.appService.spec.port,
                                   !.rv = @ + 1]
                  ELSE svc
  /\ UNCHANGED <<start, app, dep, now, passes, ext>>

\* lines 79-90: r.Get of the Service
GetSvc(w, fault) ==
  /\ pass[w].pc = "GetSvc"
  /\ LET r == StoreGet(svc, fault)
         p == Log(pass[w], "GetSvc", r.err)
     IN pass' = [pass EXCEPT ![w] =
          IF r.err = NotFound THEN [p EXCEPT !.pc = "CreateSvc"]
          ELSE IF r.err # "ok" THEN Fail(p, r.err)
          ELSE [p EXCEPT !.pc = "StatusUpdate"]]
  /\ UNCHANGED <<start, app, dep, svc, now, passes, ext>>

\* faulty variant: the pass goes on to the status step once the Service is created
CreateSvc_Continues(w, fault) ==
  /\ pass[w].pc = "CreateSvc"
  /\ LET r == StoreCreate(svc, serviceForAppService(pass[w].appService), fault)
         p == Log(pass[w], "CreateSvc", r.err)
     IN /\ svc' = r.obj
        /\ pass' = [pass EXCEPT ![w] =
             IF r.err # "ok" THEN Fail(p, r.err)
             ELSE [p EXCEPT !.pc = "StatusUpdate"]]
  /\ UNCHANGED <<start, app, dep, now, passes, ext>>

\* lines 82-87: r.Create of the synthesized Service
CreateSvc(w, fault) ==
  /\ pass[w].pc = "CreateSvc"
  /\ LET r == StoreCreate(svc, serviceForAppService(pass[w].appService), fault)
         p == Log(pass[w], "CreateSvc", r.err)
     IN /\ svc' = r.obj
        /\ pass' = [pass EXCEPT ![w] =
             IF r.err # "ok" THEN Fail(p, r.err)
             ELSE Finish(p, Requeue, "ok")]
  /\ UNCHANGED <<start, app, dep, now, passes, ext>>

\* what a read of the clock may return when the read before it returned t:
\* at most one tick goes by between two reads
Later(t) == {u \in {t, t + 1} : u <= MaxTime}

\* lines 92-107: the status computed and persisted with r.Status().Update.
\* now is the latest value read off the clock: the read at line 93 returns
\* t, no earlier than that, and the read at line 182 returns t2, no earlier
\* than t.
StatusUpdate(w, fault) ==
  /\ pass[w].pc = "StatusUpdate"
  /\ \E t \in Later(now), t2 \in Later(now) \cup Later(now + 1) :
       LET a == ComputeStatus(pass[w].appService, pass[w].deployment, t, t2)
           r == RecordStatusUpdate(app, a, fault)
           p == Log([pass[w] EXCEPT !.appService = a], "StatusUpdate", r.err)
       IN /\ app' = r.obj
          /\ t2 \in Later(t)
          /\ now' = t2
          /\ pass' = [pass EXCEPT ![w] =
               IF r.err # "ok" THEN Fail(p, r.err)
               ELSE Finish([p EXCEPT !.appService = r.obj],
                           RequeueAfter(RequeueAfterSeconds), "ok")]
  /\ UNCHANGED <<start, dep, svc, passes, ext>>

Reconcile(w, fault, limit) ==
  \/ GetApp(w, fault, limit)
  \/ UpdateAppAdd(w, fault)
  \/ UpdateAppRemove(w, fault)
  \/ GetDep(w, fault)
  \/ CreateDep(w, fault)
  \/ UpdateDep(w, fault)
  \/ GetSvc(w, fault)
  \/ CreateSvc(w, fault)
  \/ StatusUpdate(w, fault)

\* ------------------------------------------------------------- environment
\* the records a user patch of one spec field can make of a
Edited(a) ==
  {[a EXCEPT !.spec = sp, !.rv = @ + 1] :
     sp \in {x \in [replicas : ReplicaValues, image : Images, port : Ports,
                     environment : {a.spec.environment},
                     resources : {a.spec.resources}] :
               Cardinality({f \in {"replicas", "image", "port"} :
                              x[f] # a.spec[f]}) = 1}}

\* a user delete: the store marks the record, or removes it when no finalizer
\* holds it
Deleted(a) ==
  IF a.finalizers = <<>> THEN Absent
  ELSE [a EXCEPT !.deleting = TRUE, !.rv = @ + 1]

UserEdit ==
  /\ app.exists
  /\ ext < MaxExt
  /\ app' \in Edited(app)
  /\ ext' = ext + 1
  /\ UNCHANGED <<start, dep, svc, now, pass, passes>>

UserDelete ==
  /\ app.exists
  /\ ~app.deleting
  /\ ext < MaxExt
  /\ app' = Deleted(app)
  /\ ext' = ext + 1
  /\ UNCHANGED <<start, dep, svc, now, pass, passes>>

\* the Deployment controller reports the available replicas
DeploymentController ==
  /\ dep.exists
  /\ ext < MaxExt
  /\ \E n \in AvailValues :
       /\ n # dep.availableReplicas
       /\ n <= dep.replicas
       /\ dep' = [dep EXCEPT !.availableReplicas = n, !.rv = @ + 1]
  /\ ext' = ext + 1
  /\ UNCHANGED <<start, app, svc, now, pass, passes>>

\* the store's garbage collector removes the dependents of a removed record
GarbageCollect ==
  /\ ~app.exists
  /\ \/ /\ dep.exists /\ dep.owner.name = Name
        /\ dep' = Absent /\ svc' = svc
     \/ /\ svc.exists /\ svc.owner.name = Name
        /\ svc' = Absent /\ dep' = dep
  /\ UNCHANGED <<start, app, now, pass, passes, ext>>

\* an object written under the record's key by another user of the typed client
NoOwner == [kind |-> "", name |-> "", controller |-> FALSE]

ClientDeployments ==
  {[exists |-> TRUE, name |-> Name, namespace |-> Namespace,
    replicas |-> 5, image |-> "x:2", containerPort |-> 9,
    env |-> <<>>, resources |-> [requests |-> "nil", limits |-> "nil"],
    selector |-> [app |-> "other"], podLabels |-> [app |-> "other"],
    owner |-> NoOwner, availableReplicas |-> 0, rv |-> 0]}

ClientServices ==
  {[exists |-> TRUE, name |-> Name, namespace |-> Namespace,
    port |-> 9, targetPort |-> 9,
    selector |-> [app |-> "other"], owner |-> NoOwner, rv |-> 0]}

\* the copies of a stored Deployment a client may write back after a change
ClientUpdates(d) ==
  {[d EXCEPT !.replicas = n] : n \in {3, 5} \ {d.replicas}}
  \cup {[d EXCEPT !.image = i] : i \in Images \ {d.image}}

\* Client.CreateDeployment: the store rejects it when the key is taken; the
\* store stamps the new object with a version no earlier object had
CreateDeployment ==
  /\ ~dep.exists
  /\ ext < MaxExt
  /\ \E d \in ClientDeployments : dep' = [d EXCEPT !.rv = NewVersion]
  /\ ext' = ext + 1
  /\ UNCHANGED <<start, app, svc, now, pass, passes>>

\* Client.UpdateDeployment: the stored Deployment is overwritten
UpdateDeployment ==
  /\ dep.exists
  /\ ext < MaxExt
  /\ \E d \in ClientUpdates(dep) : dep' = [d EXCEPT !.rv = @ + 1]
  /\ ext' = ext + 1
  /\ UNCHANGED <<start, app, svc, now, pass, passes>>

\* Client.DeleteDeployment: the Deployment is removed, whoever owns it
DeleteDeployment ==
  /\ dep.exists
  /\ ext < MaxExt
  /\ dep' = Absent
  /\ ext' = ext + 1
  /\ UNCHANGED <<start, app, svc, now, pass, passes>>

\* Client.CreateService: the store rejects it when the key is taken
CreateService ==
  /\ ~svc.exists
  /\ ext < MaxExt
  /\ \E s \in ClientServices : svc' = [s EXCEPT !.rv = NewVersion]
  /\ ext' = ext + 1
  /\ UNCHANGED <<start, app, dep, now, pass, passes>>

Tick ==
  /\ now < MaxTime
  /\ now' = now + 1
  /\ UNCHANGED <<start, app, dep, svc, pass, passes, ext>>

\* -------------------------------------------------------------------- Init
NewRecord(sp, fins) ==
  [exists |-> TRUE, name |-> Name, namespace |-> Namespace, spec |-> sp,
   deleting |-> FALSE, finalizers |-> fins, status |-> EmptyStatus, rv |-> 1]

\* the specs of the records at the start: a negative replica count or
\* three replicas without environment and resources, and no replicas with
\* both; five replicas come with a user patch
PlainSpecs ==
  [replicas : {-1, 3}, image : {"x:1"}, port : {80},
   environment : {NoEnv}, resources : {NoResources}]

RichSpecs ==
  [replicas : {0}, image : {"x:1"}, port : {80},
   environment : {EnvAB}, resources : {CpuOnly}]

\* a record the user just created, no dependents yet
BareStates ==
  {[app |-> NewRecord(sp, fins), dep |-> Absent, svc |-> Absent] :
     sp \in PlainSpecs \cup RichSpecs,
     fins \in {<<>>, <<OtherFinalizer>>}}

\* the states the operator may find when it starts: no record; a record the
\* user just created; or a record an earlier run has brought part of the way
InitStates ==
  LET held(a) == [AddFinalizer(a, Finalizer) EXCEPT !.rv = 2]
      made(c) == [deploymentForAppService(c.a, c.o) EXCEPT !.rv = 1]
      ran(c, n) == [made(c) EXCEPT !.availableReplicas = n, !.rv = 2]
      srv(a) == [serviceForAppService(a) EXCEPT !.rv = 1]
      fresh == UNION {{[a |-> s.app, o |-> o] :
                         o \in RangeOrders(s.app.spec.environment)} :
                      s \in BareStates}
  IN {[app |-> Absent, dep |-> Absent, svc |-> Absent]}
     \cup BareStates
     \cup {[app |-> held(c.a), dep |-> made(c), svc |-> Absent] : c \in fresh}
     \cup {[app |-> held(c.a), dep |-> made(c), svc |-> srv(c.a)] : c \in fresh}
     \cup UNION {UNION {{[app |-> held(c.a), dep |-> ran(c, n),
                          svc |-> srv(c.a)],
                         [app |-> [ComputeStatus(held(c.a), ran(c, n), 0, 0)
                                     EXCEPT !.rv = 3],
                          dep |-> ran(c, n), svc |-> srv(c.a)]} :
                        n \in {m \in AvailValues :
                                 m # 0 /\ m <= c.a.spec.replicas}} :
                 c \in fresh}

\* the same, and what one user patch or delete makes of them
QuietStates ==
  InitStates
  \cup UNION {{[s EXCEPT !.app = a] : a \in Edited(s.app) \cup {Deleted(s.app)}} :
              s \in {x \in InitStates : x.app.exists}}

InitAt(S, t) ==
  /\ \E s \in S : app = s.app /\ dep = s.dep /\ svc = s.svc /\ start = s
  /\ now = t
  /\ pass = [w \in Workers |-> IdlePass]
  /\ passes = 0
  /\ ext = 0

InitWith(S) == InitAt(S, 1)

Init == InitWith(InitStates)

\* the writers other than the engine
ClientWrites ==
  CreateDeployment \/ UpdateDeployment \/ DeleteDeployment \/ CreateService

Environment ==
  \/ UserEdit \/ UserDelete \/ DeploymentController \/ GarbageCollect
  \/ ClientWrites

\* passes for one key are serialized by the controller's work queue; any
\* store operation may fail; other writers act at any point
Next ==
  \/ \E w \in Serial, fault \in Faults : Reconcile(w, fault, MaxPasses)
  \/ Environment

Spec == Init /\ [][Next]_vars

\* no store errors and no other writer
QuietInit == InitWith(QuietStates)

QuietNext ==
  \/ \E w \in Serial : Reconcile(w, "ok", MaxQuietPasses)
  \/ GarbageCollect

SpecQuiet == QuietInit /\ [][QuietNext]_vars

\* the same, with every pass that is due taken: the first one, and one after
\* each error and each retry directive
Due(w) ==
  pass[w].pc # "done" \/ pass[w].err # "ok" \/ pass[w].result # Done

SpecLive ==
  SpecQuiet
  /\ WF_vars(\E w \in Serial : Due(w) /\ Reconcile(w, "ok", MaxQuietPasses))

\* ================================================================= claims
OpNames(p) == [i \in 1..Len(p.ops) |-> p.ops[i].op]

Issued(p, op) == \E i \in 1..Len(p.ops) : p.ops[i].op = op

Marked(a) == \E i \in 1..Len(a.finalizers) : a.finalizers[i] = Finalizer

Returned(p) == p.pc = "done"

ReturnedOk(p) == p.pc = "done" /\ p.err = "ok"

\* the desired state is well formed: replicas >= 0 and a port in 1..65535
WellFormed(sp) == sp.replicas >= 0 /\ sp.port >= 1 /\ sp.port <= 65535

\* the pass of w read a record not marked for deletion and without the marker
FetchedUnmarked(p) ==
  p.fetched.exists /\ ~p.fetched.deleting /\ ~Marked(p.fetched)

\* the pass of w read a record marked for deletion that carries the marker
FetchedDeletingMarked(p) ==
  p.fetched.exists /\ p.fetched.deleting /\ Marked(p.fetched)

\* ---------------------------------------------------------------------- C1
\* C1 as stated: a pass on a record that is not marked for deletion and has
\* no finalizer marker adds the marker, persists the record, returns
\* immediate retry and issues no other store operation in that pass
\* (stated here for well-formed records).
C1_ReturnsAfterFinalizer ==
  \A w \in Workers :
    LET p == pass[w]
    IN (FetchedUnmarked(p) /\ WellFormed(p.fetched.spec)) =>
         /\ OpNames(p) \in {<<"GetApp">>, <<"GetApp", "UpdateApp">>}
         /\ ReturnedOk(p) => p.result = Requeue

\* C1 amended: such a pass adds the marker once and persists the record as
\* its first write; if that update fails the pass returns the error and
\* issues nothing more; if it succeeds the pass does not return there but
\* goes on in the same pass to fetch the workload, and returns what the
\* convergence branch returns (immediate retry after a create or a replica
\* patch, delayed retry after the status write).
C1_FinalizerThenConverge ==
  \A w \in Workers :
    LET p == pass[w]
    IN FetchedUnmarked(p) =>
         /\ p.pc = "UpdateAppAdd" =>
              /\ OpNames(p) = <<"GetApp">>
              /\ p.appService =
                   [p.fetched EXCEPT !.finalizers = Append(@, Finalizer)]
         /\ Len(p.ops) >= 2 => p.ops[2].op = "UpdateApp"
         /\ (Len(p.ops) >= 2 /\ p.ops[2].err # "ok") =>
              /\ Returned(p) /\ Len(p.ops) = 2
              /\ p.err = p.ops[2].err /\ p.result = Done
         /\ (Len(p.ops) >= 2 /\ p.ops[2].err = "ok") =>
              /\ p.appService.finalizers =
                   Append(p.fetched.finalizers, Finalizer)
              /\ p.appService.rv = p.fetched.rv + 1 =>
                   (app.exists /\ app.rv = p.appService.rv =>
                      app.finalizers = p.appService.finalizers)
              /\ Returned(p) => Len(p.ops) >= 3
              /\ ReturnedOk(p) => Len(p.ops) >= 4
              /\ Len(p.ops) >= 3 => p.ops[3].op = "GetDep"
              /\ ReturnedOk(p) =>
                   \/ /\ p.ops[Len(p.ops)].op \in
                           {"CreateDep", "UpdateDep", "CreateSvc"}
                      /\ p.result = Requeue
                   \/ /\ p.ops[Len(p.ops)].op = "StatusUpdate"
                      /\ p.result = RequeueAfter(RequeueAfterSeconds)

C1_Witness ==
  \E w \in Workers :
    LET p == pass[w]
    IN /\ FetchedUnmarked(p) /\ ReturnedOk(p)
       /\ OpNames(p) = <<"GetApp", "UpdateApp", "GetDep", "CreateDep">>
       /\ p.result = Requeue
       /\ app.exists /\ Marked(app) /\ dep.exists

\* ---------------------------------------------------------------------- C2
\* the stored record is past the engine's finalizer: removed, or marked for
\* deletion without the marker
Finalized == ~app.exists \/ (app.deleting /\ ~Marked(app))

\* C2: a pass on a record that has deletion requested and carries the
\* marker issues only the record's fetch and one update; when no store
\* operation fails it leaves the stored record without the marker and
\* returns Done; and once the record is past the finalizer no engine step
\* creates, updates or deletes the workload or the endpoint.
C2_DeletionProtocol ==
  /\ [](\A w \in Workers :
          LET p == pass[w]
          IN FetchedDeletingMarked(p) =>
               /\ OpNames(p) \in {<<"GetApp">>, <<"GetApp", "UpdateApp">>}
               /\ Returned(p) => p.result = Done /\ Len(p.ops) = 2
               /\ ReturnedOk(p) => ~Marked(p.appService) /\ Finalized)
  /\ [][\A w \in Workers :
          /\ (pass[w].pc = "UpdateAppRemove" /\ pass'[w] # pass[w]
                /\ pass'[w].err = "ok") =>
               \/ ~app'.exists
               \/ app' = [app EXCEPT
                            !.finalizers = SelectSeq(@, LAMBDA e : e # Finalizer),
                            !.rv = @ + 1]
          /\ (Finalized /\ pass'[w] # pass[w]) =>
               (dep' = dep /\ svc' = svc)]_vars

C2_Witness ==
  \E w \in Workers :
    LET p == pass[w]
    IN /\ FetchedDeletingMarked(p) /\ ReturnedOk(p)
       /\ OpNames(p) = <<"GetApp", "UpdateApp">>
       /\ p.result = Done /\ p.prev # ""
       /\ app.exists /\ app.deleting /\ ~Marked(app)
       /\ dep.exists

\* ---------------------------------------------------------------------- C3
\* the run started from a record not marked for deletion, replicas 3, with
\* no workload and no endpoint
StartedBare3 ==
  /\ start.app.exists /\ ~start.app.deleting
  /\ start.app.spec.replicas = 3
  /\ ~start.dep.exists /\ ~start.svc.exists

\* C3: from such a start, with no store error and no other writer, pass 1
\* creates the workload and returns immediate retry, pass 2 creates the
\* endpoint and returns immediate retry, and pass 3 (the workload reports no
\* available replica) persists phase "Pending" and returns delayed retry.
C3_Scenario ==
  \A w \in Serial :
    LET p == pass[w]
    IN (StartedBare3 /\ Returned(p)) =>
         /\ p.err = "ok"
         /\ passes = 1 =>
              /\ p.ops[Len(p.ops)].op = "CreateDep"
              /\ ~Issued(p, "CreateSvc") /\ ~Issued(p, "StatusUpdate")
              /\ p.result = Requeue
              /\ dep.exists /\ dep.replicas = 3 /\ ~svc.exists
         /\ passes = 2 =>
              /\ OpNames(p) = <<"GetApp", "GetDep", "GetSvc", "CreateSvc">>
              /\ p.result = Requeue
              /\ dep.exists /\ svc.exists /\ app.status = EmptyStatus
         /\ passes = 3 =>
              /\ OpNames(p) = <<"GetApp", "GetDep", "GetSvc", "StatusUpdate">>
              /\ p.result = RequeueAfter(RequeueAfterSeconds)
              /\ dep.availableReplicas = 0
              /\ app.status.phase = "Pending"

C3_Witness ==
  \E w \in Serial :
    /\ StartedBare3 /\ Returned(pass[w]) /\ passes = 3
    /\ pass[w].prev = "CreateSvc"
    /\ app.status.phase = "Pending"
    /\ pass[w].result = RequeueAfter(RequeueAfterSeconds)

\* ---------------------------------------------------------------------- C4
ReadyConditions(st) ==
  {st.conditions[i].status :
     i \in {j \in 1..Len(st.conditions) : st.conditions[j].type = "Ready"}}

\* the pass of w went through the status step and its write succeeded;
\* p.appService is then the record the store returned for that write
WroteStatus(p) ==
  ReturnedOk(p) /\ p.ops # <<>> /\ p.ops[Len(p.ops)].op = "StatusUpdate"

StatusStepShape(p, readyPhase) ==
  LET st == p.appService.status
  IN /\ st.availableReplicas = p.deployment.availableReplicas
     /\ IF p.deployment.availableReplicas = p.appService.spec.replicas
        THEN st.phase = readyPhase /\ ReadyConditions(st) = {"True"}
        ELSE st.phase = "Pending" /\ ReadyConditions(st) = {"False"}
     /\ (app.exists /\ app.rv = p.appService.rv) => app.status = st

\* C4 as stated: a pass that reaches the status step persists phase "Ready",
\* the workload's available count and condition Ready=True when that count
\* equals the record's replicaCount, and otherwise phase "Pending" and
\* condition Ready=False (stated here for well-formed records).
C4_PhaseReady ==
  \A w \in Workers :
    (WroteStatus(pass[w]) /\ WellFormed(pass[w].appService.spec)) =>
      StatusStepShape(pass[w], "Ready")

\* C4 amended: the same, with the phase written in the equal case being
\* "Running".
C4_PhaseRunning ==
  \A w \in Workers :
    WroteStatus(pass[w]) => StatusStepShape(pass[w], "Running")

C4_Witness ==
  \E w \in Workers :
    /\ WroteStatus(pass[w])
    /\ pass[w].deployment.availableReplicas = 3
    /\ pass[w].fetched.status.phase = "Pending"
    /\ app.exists /\ app.spec.replicas = 3
    /\ app.status.phase = "Running" /\ app.status.availableReplicas = 3
    /\ ReadyConditions(app.status) = {"True"}

\* ---------------------------------------------------------------------- C5
\* the step w takes issues op and the store accepts it
StepOk(w, pc) ==
  /\ pass[w].pc = pc /\ pass'[w] # pass[w]
  /\ pass'[w].ops[Len(pass'[w].ops)].err = "ok"

\* C5: when the fetched workload's replica field differs from the record's
\* replicaCount the pass issues an update of the workload next; that update
\* changes only the replica field of the stored workload (and its version
\* stamp), leaves the endpoint and the record unchanged, is the last
\* operation of the pass, and the pass returns immediate retry.
C5_ReplicaPatch ==
  /\ [](\A w \in Workers :
          LET p == pass[w]
          IN /\ p.pc = "UpdateDep" => p.ops[Len(p.ops)].op = "GetDep"
             /\ Issued(p, "UpdateDep") =>
                  /\ Returned(p)
                  /\ p.ops[Len(p.ops)].op = "UpdateDep"
                  /\ p.ops[Len(p.ops) - 1].op = "GetDep"
                  /\ p.err = "ok" => p.result = Requeue)
  /\ [][\A w \in Workers :
          /\ (StepOk(w, "GetDep") /\ dep.exists
                /\ dep.replicas # pass[w].appService.spec.replicas) =>
               pass'[w].pc = "UpdateDep"
          /\ StepOk(w, "UpdateDep") =>
               /\ dep.replicas # pass[w].appService.spec.replicas
               /\ dep' = [dep EXCEPT
                            !.replicas = pass[w].appService.spec.replicas,
                            !.rv = @ + 1]
               /\ svc' = svc /\ app' = app]_vars

C5_Witness ==
  \E w \in Workers :
    LET p == pass[w]
    IN /\ ReturnedOk(p)
       /\ OpNames(p) = <<"GetApp", "GetDep", "UpdateDep">>
       /\ p.fetched.status.phase = "Running"
       /\ start.dep.exists /\ start.dep.replicas = 3
       /\ p.fetched.spec.replicas = 5
       /\ dep = [start.dep EXCEPT !.replicas = 5, !.rv = @ + 1]
       /\ svc.exists /\ svc = start.svc
       /\ app.exists /\ app.status = start.app.status

\* ---------------------------------------------------------------------- C6
\* the stored workload has the record's replica count
Converged ==
  app.exists /\ dep.exists /\ dep.replicas = app.spec.replicas

\* C6: for a record not marked for deletion with replicaCount >= 0 that
\* nobody changes, with no store error and every retry directive followed by
\* a pass, the stored workload's replica field eventually equals
\* replicaCount, and once it does no step changes it.
C6_Convergence ==
  /\ (app.exists /\ ~app.deleting /\ app.spec.replicas >= 0) => <>Converged
  /\ [][(Converged /\ ~app.deleting) =>
          (Converged' /\ dep'.replicas = dep.replicas)]_vars

C6_Witness ==
  \E w \in Serial :
    /\ Converged /\ ~app.deleting /\ app.spec.replicas = 5
    /\ start.dep.exists /\ start.dep.replicas = 3
    /\ pass[w].prev = "UpdateDep" /\ WroteStatus(pass[w])

\* ---------------------------------------------------------------------- C7
\* C7: with no other writer and no store error, a pass that follows a pass
\* which reached the status step issues no create or update of a dependent
\* resource and no update of the record other than the status write; it
\* leaves the workload and the endpoint as they are, and its status write
\* changes nothing but lastReconcileTime (and the version stamp).
C7_Idempotent ==
  /\ [](\A w \in Serial :
          LET p == pass[w]
          IN p.prev = "StatusUpdate" =>
               /\ p.pc \in {"done", "GetDep", "GetSvc", "StatusUpdate"}
               /\ Returned(p) =>
                    /\ OpNames(p) =
                         <<"GetApp", "GetDep", "GetSvc", "StatusUpdate">>
                    /\ p.err = "ok"
                    /\ p.result = RequeueAfter(RequeueAfterSeconds))
  /\ [][\A w \in Serial :
          (pass'[w].prev = "StatusUpdate" /\ pass'[w] # pass[w]) =>
            /\ dep' = dep /\ svc' = svc
            /\ \/ app' = app
               \/ /\ pass[w].pc = "StatusUpdate"
                  /\ \E t \in now..now' :
                       app' = [app EXCEPT !.status.lastReconcileTime = t,
                                          !.rv = @ + 1]]_vars

C7_Witness ==
  \E w \in Serial :
    /\ pass[w].prev = "StatusUpdate" /\ WroteStatus(pass[w])
    /\ app.status.lastReconcileTime = 2
    /\ app.status.conditions # <<>>
    /\ app.status.conditions[1].lastTransitionTime = 1

\* ---------------------------------------------------------------------- C8
\* a store outcome the pass goes on from: success, or not-found from the
\* fetch of the workload or of the endpoint
GoesOn(o) ==
  o.err = "ok" \/ (o.err = NotFound /\ o.op \in {"GetDep", "GetSvc"})

\* C8: an operation of a pass that fails with anything but not-found is the
\* pass's last operation; the pass returns that error with the empty
\* directive; the failed operation changes nothing in the store; and no
\* operation is issued twice in a pass.
C8_ErrorsAbort ==
  /\ [](\A w \in Workers :
          LET p == pass[w]
              n == Len(p.ops)
          IN /\ \A i \in 1..(n - 1) : GoesOn(p.ops[i])
             /\ (n > 0 /\ p.ops[n].err # "ok" /\ p.ops[n].err # NotFound) =>
                  /\ Returned(p)
                  /\ p.err = p.ops[n].err /\ p.result = Done
             /\ p.err # "ok" => (Returned(p) /\ n > 0 /\ p.err = p.ops[n].err)
             /\ \A i, j \in 1..n : p.ops[i].op = p.ops[j].op => i = j)
  /\ [][\A w \in Workers :
          (pass'[w] # pass[w] /\ pass'[w].err # "ok") =>
            (app' = app /\ dep' = dep /\ svc' = svc)]_vars

C8_Witness ==
  \E w \in Workers :
    LET p == pass[w]
    IN /\ Returned(p) /\ p.err = TransientIO /\ p.result = Done
       /\ OpNames(p) = <<"GetApp", "GetDep", "GetSvc", "CreateSvc">>
       /\ ~svc.exists

\* ---------------------------------------------------------------------- C9
\* C9: a pass on a record whose desired state is malformed returns no error,
\* issues no create or update of a workload or endpoint, and leaves the
\* record with phase "Failed".
C9_InvalidSurfaced ==
  \A w \in Workers :
    LET p == pass[w]
    IN (p.fetched.exists /\ ~p.fetched.deleting
          /\ ~WellFormed(p.fetched.spec)) =>
         /\ ~Issued(p, "CreateDep") /\ ~Issued(p, "UpdateDep")
         /\ ~Issued(p, "CreateSvc")
         /\ Returned(p) =>
              /\ p.err = "ok"
              /\ app.exists => app.status.phase = "Failed"

\* --------------------------------------------------------------------- C10
MarkerCount(a) ==
  Cardinality({i \in 1..Len(a.finalizers) : a.finalizers[i] = Finalizer})

\* C10: the stored record, and every copy of it a pass holds, carries the
\* marker at most once; a pass on a record that is not marked for deletion
\* and already carries the marker issues no update of the record.
C10_FinalizerOnce ==
  /\ app.exists => MarkerCount(app) <= 1
  /\ \A w \in Workers :
       LET p == pass[w]
       IN /\ p.appService.exists => MarkerCount(p.appService) <= 1
          /\ (p.fetched.exists /\ ~p.fetched.deleting /\ Marked(p.fetched)) =>
               /\ ~Issued(p, "UpdateApp") /\ p.pc # "UpdateAppAdd"
               /\ p.appService.finalizers = p.fetched.finalizers

C10_Witness ==
  \E w \in Workers :
    LET p == pass[w]
    IN /\ ReturnedOk(p) /\ p.prev = "CreateDep"
       /\ ~p.fetched.deleting /\ Marked(p.fetched)
       /\ Issued(p, "CreateSvc")
       /\ app.exists /\ app.finalizers = <<OtherFinalizer, Finalizer>>

\* --------------------------------------------------------------------- C11
\* updateCondition called over and over on one record: the caller picks the
\* type, status and reason of each call; pass holds the last call and the
\* list it was made on
CondTypes == {"Ready", "Progressing"}
CondStatuses == {"True", "False", "Unknown"}
CondReasons == {"DeploymentReady", "DeploymentNotReady"}

\* the condition lists with at most one entry per type
CondLists ==
  LET entries(ty) == {[type |-> ty, status |-> st, reason |-> rs,
                       message |-> "m", lastTransitionTime |-> 0] :
                        st \in CondStatuses, rs \in CondReasons}
  IN {<<>>}
     \cup {<<e>> : e \in UNION {entries(ty) : ty \in CondTypes}}
     \cup {<<e, f>> : e \in entries("Ready"), f \in entries("Progressing")}
     \cup {<<f, e>> : e \in entries("Ready"), f \in entries("Progressing")}

CondInit ==
  /\ \E cs \in CondLists :
       app = [NewRecord([replicas |-> 3, image |-> "x:1", port |-> 80,
                         environment |-> NoEnv, resources |-> NoResources],
                        <<>>)
                EXCEPT !.status.conditions = cs]
  /\ dep = Absent /\ svc = Absent
  /\ start = [app |-> Absent, dep |-> Absent, svc |-> Absent]
  /\ now = 1
  /\ pass = <<>>
  /\ passes = 0
  /\ ext = 0

SetCondition ==
  \E condType \in CondTypes, status \in CondStatuses, reason \in CondReasons :
    /\ app' = updateCondition(app, condType, status, reason, "n", now)
    /\ pass' = [type |-> condType, status |-> status, reason |-> reason,
                message |-> "n", t |-> now,
                before |-> app.status.conditions]
    /\ UNCHANGED <<start, dep, svc, now, passes, ext>>

CondNext == SetCondition \/ Tick

SpecCond == CondInit /\ [][CondNext]_vars

\* the positions of the entries of type ty in cs
EntriesOf(cs, ty) == {i \in 1..Len(cs) : cs[i].type = ty}

\* C11: the list holds at most one Condition per type; a call on a list
\* that has an entry of the call's type with another status replaces that
\* entry and stamps it with the current time; a call whose status is the
\* entry's status leaves the list, and so the entry's lastTransitionTime, as
\* it is; a call for a type not in the list appends an entry stamped with
\* the current time; entries of other types are never touched.
C11_ConditionDedup ==
  LET cs == app.status.conditions
  IN /\ \A ty \in CondTypes : Cardinality(EntriesOf(cs, ty)) <= 1
     /\ pass # <<>> =>
          LET old == EntriesOf(pass.before, pass.type)
              condition == [type |-> pass.type, status |-> pass.status,
                            reason |-> pass.reason, message |-> pass.message,
                            lastTransitionTime |-> pass.t]
          IN /\ old = {} => cs = Append(pass.before, condition)
             /\ \A i \in old :
                  /\ Len(cs) = Len(pass.before)
                  /\ \A j \in 1..Len(cs) : j # i => cs[j] = pass.before[j]
                  /\ pass.before[i].status # pass.status =>
                       cs[i] = condition
                  /\ pass.before[i].status = pass.status =>
                       cs[i] = pass.before[i]

C11_Witness ==
  /\ pass # <<>> /\ pass.type = "Ready" /\ pass.status = "True"
  /\ pass.t = 2
  /\ Len(app.status.conditions) = 2
  /\ \E i \in EntriesOf(pass.before, "Ready") :
       /\ pass.before[i].status = "True"
       /\ pass.before[i].reason # pass.reason
       /\ app.status.conditions[i].lastTransitionTime = 1
       /\ app.status.conditions[i].reason = pass.before[i].reason

\* ---------------------------------------------------------- BaseReconciler
\* CreateOrUpdate and DeleteIfExists (pkg/reconciler/reconciler.go) called by
\* one caller on one key, whose object is held in dep; another writer of the
\* key acts between the caller's store operations.  pass is the caller: the
\* helper it is in, its obj and existing, what the call in hand returned
\* (ret), the fault of its last store operation, and the calls returned so
\* far (log).  passes counts the calls, ext the other writer's writes.
MaxCalls == 3

\* client.Delete: removes the object; not-found when there is none
StoreDelete(stored, fault) ==
  IF fault # "ok" THEN [err |-> fault, obj |-> stored]
  ELSE IF ~stored.exists THEN [err |-> NotFound, obj |-> stored]
  ELSE [err |-> "ok", obj |-> Absent]

IsNotFound(err) == err = NotFound

IgnoreNotFound(err) == IF IsNotFound(err) THEN "ok" ELSE err

GetResourceVersion(obj) == obj.rv

SetResourceVersion(obj, rv) == [obj EXCEPT !.rv = rv]

\* the objects a caller passes in: never stored, no version stamp yet
BaseObjects ==
  {deploymentForAppService(NewRecord(sp, <<>>), <<>>) :
     sp \in [replicas : {3, 5}, image : Images, port : {80},
             environment : {NoEnv}, resources : {NoResources}]}

IdleCaller ==
  [pc |-> "idle", call |-> "", obj |-> Absent, existing |-> Absent,
   ret |-> "ok", fault |-> "ok", log |-> <<>>]

Return(c, err) ==
  [c EXCEPT !.pc = "idle", !.ret = err,
            !.log = Append(@, [call |-> c.call, ret |-> err])]

BaseInit ==
  /\ dep \in {Absent} \cup {SetResourceVersion(o, 1) : o \in BaseObjects}
  /\ start = [app |-> Absent, dep |-> dep, svc |-> Absent]
  /\ app = Absent /\ svc = Absent
  /\ now = 1
  /\ pass = IdleCaller
  /\ passes = 0
  /\ ext = 0

\* the caller's object after a write: the client decodes the store's answer
\* into it when the write is accepted and leaves it alone otherwise
Decoded(obj, r) == IF r.err = "ok" THEN r.obj ELSE obj

\* faulty variant: the existing object's version stamp is not carried over
CreateOrUpdateGet_NoVersion(obj, fault) ==
  /\ pass.pc = "idle"
  /\ passes < MaxCalls
  /\ passes' = passes + 1
  /\ LET r == StoreGet(dep, fault)
         c == [pass EXCEPT !.call = "CreateOrUpdate", !.obj = obj,
                           !.existing = r.obj, !.fault = fault]
     IN pass' = IF IsNotFound(r.err) THEN [c EXCEPT !.pc = "Create"]
                ELSE IF r.err # "ok" THEN Return(c, r.err)
                ELSE [c EXCEPT !.pc = "Update"]
  /\ UNCHANGED <<start, app, dep, svc, now, ext>>

\* lines 56-67: the read of the existing object and what follows from it
CreateOrUpdateGet(obj, fault) ==
  /\ pass.pc = "idle"
  /\ passes < MaxCalls
  /\ passes' = passes + 1
  /\ LET r == StoreGet(dep, fault)
         c == [pass EXCEPT !.call = "CreateOrUpdate", !.obj = obj,
                           !.existing = r.obj, !.fault = fault]
     IN pass' = IF IsNotFound(r.err) THEN [c EXCEPT !.pc = "Create"]
                ELSE IF r.err # "ok" THEN Return(c, r.err)
                ELSE [c EXCEPT !.pc = "Update",
                               !.obj = SetResourceVersion(
                                         obj, GetResourceVersion(r.obj))]
  /\ UNCHANGED <<start, app, dep, svc, now, ext>>

\* line 62: return r.Client.Create(ctx, obj); obj takes the store's answer
CreateOrUpdateCreate(fault) ==
  /\ pass.pc = "Create"
  /\ LET r == StoreCreate(dep, pass.obj, fault)
     IN /\ dep' = r.obj
        /\ pass' = Return([pass EXCEPT !.fault = fault,
                                       !.obj = Decoded(@, r)],
                          r.err)
  /\ UNCHANGED <<start, app, svc, now, passes, ext>>

\* line 68: return r.Client.Update(ctx, obj); obj takes the store's answer
CreateOrUpdateUpdate(fault) ==
  /\ pass.pc = "Update"
  /\ LET r == StoreUpdate(dep, pass.obj, fault)
     IN /\ dep' = r.obj
        /\ pass' = Return([pass EXCEPT !.fault = fault,
                                       !.obj = Decoded(@, r)],
                          r.err)
  /\ UNCHANGED <<start, app, svc, now, passes, ext>>

CreateOrUpdate(obj, fault) ==
  \/ CreateOrUpdateGet(obj, fault)
  \/ CreateOrUpdateCreate(fault)
  \/ CreateOrUpdateUpdate(fault)

\* faulty variant: not-found is returned like any other error
DeleteIfExists_Strict(fault) ==
  /\ pass.pc = "idle"
  /\ passes < MaxCalls
  /\ passes' = passes + 1
  /\ LET r == StoreDelete(dep, fault)
         c == [pass EXCEPT !.call = "DeleteIfExists", !.obj = dep,
                           !.existing = Absent, !.fault = fault]
     IN /\ dep' = r.obj
        /\ pass' = Return(c, r.err)
  /\ UNCHANGED <<start, app, svc, now, ext>>

\* lines 71-77: the delete, with not-found taken for success
DeleteIfExists(fault) ==
  /\ pass.pc = "idle"
  /\ passes < MaxCalls
  /\ passes' = passes + 1
  /\ LET r == StoreDelete(dep, fault)
         c == [pass EXCEPT !.call = "DeleteIfExists", !.obj = dep,
                           !.existing = Absent, !.fault = fault]
     IN /\ dep' = r.obj
        /\ pass' = Return(c, IgnoreNotFound(r.err))
  /\ UNCHANGED <<start, app, svc, now, ext>>

\* another writer of the key updates the object, deletes it, or creates it;
\* the store never hands out a version stamp twice
OtherWriter ==
  /\ ext < MaxExt
  /\ ext' = ext + 1
  /\ \/ /\ dep.exists
        /\ \E n \in {0, 3, 5} :
             /\ n # dep.replicas
             /\ dep' = [dep EXCEPT !.replicas = n, !.rv = @ + 1]
     \/ /\ dep.exists
        /\ dep' = Absent
     \/ /\ ~dep.exists
        /\ \E o \in BaseObjects : dep' = SetResourceVersion(o, NewVersion)
  /\ UNCHANGED <<start, app, svc, now, pass, passes>>

BaseNext ==
  \/ \E obj \in BaseObjects, fault \in Faults : CreateOrUpdate(obj, fault)
  \/ \E fault \in Faults : DeleteIfExists(fault)
  \/ OtherWriter

SpecBase == BaseInit /\ [][BaseNext]_vars

\* --------------------------------------------------------------------- C12
\* C12: CreateOrUpdate creates obj when its read finds no object; when the
\* read finds one it puts that object's version stamp on obj and issues an
\* update; the update is accepted when the stored object is still the one
\* read; when another writer changed the stored object in between, the
\* update is rejected with a conflict (not-found when the object has gone),
\* that error is what CreateOrUpdate returns, and the stored object stays as
\* the other writer left it.
C12_CreateOrUpdate ==
  /\ [](/\ pass.pc = "Create" => ~pass.existing.exists
        /\ pass.pc = "Update" =>
             /\ pass.existing.exists
             /\ pass.obj.rv = pass.existing.rv
             /\ SetResourceVersion(pass.obj, 0) \in BaseObjects)
  /\ [][/\ (pass.pc = "Create" /\ pass'.pc = "idle" /\ pass'.fault = "ok") =>
             IF dep.exists
             THEN dep' = dep /\ pass'.ret = AlreadyExists
             ELSE /\ dep'.exists
                  /\ SetResourceVersion(dep', 0) = SetResourceVersion(pass.obj, 0)
                  /\ pass'.ret = "ok"
        /\ (pass.pc = "Update" /\ pass'.pc = "idle" /\ pass'.fault = "ok") =>
             IF dep = pass.existing
             THEN /\ dep' = SetResourceVersion(pass.obj, dep.rv + 1)
                  /\ pass'.ret = "ok"
             ELSE /\ dep' = dep
                  /\ pass'.ret = IF dep.exists THEN Conflict ELSE NotFound]_vars

C12_Witness ==
  /\ pass.pc = "idle" /\ pass.call = "CreateOrUpdate"
  /\ pass.ret = Conflict /\ pass.fault = "ok"
  /\ pass.existing.exists /\ pass.existing.replicas = 3
  /\ pass.obj.replicas = 5
  /\ dep.exists /\ dep.replicas = 0 /\ dep.rv = pass.existing.rv + 1
  /\ Len(pass.log) = 2 /\ pass.log[1] = [call |-> "CreateOrUpdate", ret |-> "ok"]

\* --------------------------------------------------------------------- C18
\* C18: DeleteIfExists returns success and leaves the key absent when the
\* store does not fail, whether the object was there or not, however many
\* times in a row it is called; an error of the store other than not-found is
\* returned as it is (and the object is left as it was).
C18_DeleteIdempotent ==
  /\ [](\A i \in 1..Len(pass.log) :
          pass.log[i].call = "DeleteIfExists" => pass.log[i].ret # NotFound)
  /\ [][(pass'.call = "DeleteIfExists" /\ pass' # pass) =>
          IF pass'.fault = "ok"
          THEN pass'.ret = "ok" /\ ~dep'.exists
          ELSE pass'.ret = pass'.fault /\ dep' = dep]_vars

C18_Witness ==
  /\ start.dep.exists /\ ~dep.exists /\ ext = 0
  /\ pass.log = <<[call |-> "DeleteIfExists", ret |-> "ok"],
                  [call |-> "DeleteIfExists", ret |-> "ok"],
                  [call |-> "DeleteIfExists", ret |-> "ok"]>>

\* --------------------------------------------------------------------- C13
\* two passes for the same key interleave operation by operation, with the
\* other writers of the record and of the workload acting in between; the
\* only errors are the store's own (conflict, not-found, already-exists)
RaceStates == {s \in InitStates : s.app.exists => s.app.spec.replicas = 3}

\* the clock stands at its bound: the race is not about time
RaceInit == InitAt(RaceStates, MaxTime)

RaceNext ==
  \/ \E w \in Workers : Reconcile(w, "ok", MaxPasses)
  \/ UserEdit \/ UserDelete \/ DeploymentController \/ GarbageCollect
  \/ ClientWrites

SpecRace == RaceInit /\ [][RaceNext]_vars

\* the record as the pass last read it or had it returned by its own write
LastSeenApp(p) ==
  IF p.pc \in {"UpdateAppAdd", "UpdateAppRemove"} THEN p.fetched
  ELSE p.appService

\* the stored workload is still the one the pass read (the pass's copy
\* differs from it in the patched replica field only)
DepAsRead(p) ==
  /\ dep.exists
  /\ [dep EXCEPT !.replicas = p.deployment.replicas] = p.deployment

\* the pass of w returns the store's rejection and nothing is written
Rejected(w) ==
  /\ app' = app /\ dep' = dep /\ svc' = svc
  /\ pass'[w].pc = "done" /\ pass'[w].result = Done
  /\ pass'[w].err \in {Conflict, NotFound}
  /\ pass'[w].err = pass'[w].ops[Len(pass'[w].ops)].err

\* C13: with passes interleaving and other writers acting between a pass's
\* fetch and its write, a write of the record (finalizer add or remove,
\* status update) made from a copy that is no longer the stored record, and
\* a replica patch made from a copy that is no longer the stored workload,
\* is rejected by the store and the pass returns that error with nothing
\* written; a write made from an up-to-date copy changes only what the pass
\* changed in its copy, so no other writer's update is overwritten; and a
\* create for a key that is taken is rejected, so there is never a second
\* workload or endpoint for the key.
C13_StaleWritesRejected ==
  [][\A w \in Workers :
       LET p == pass[w]
       IN pass'[w] # p =>
            /\ p.pc \in {"UpdateAppAdd", "UpdateAppRemove", "StatusUpdate"} =>
                 IF app # LastSeenApp(p) THEN Rejected(w)
                 ELSE /\ pass'[w].err = "ok"
                      /\ dep' = dep /\ svc' = svc
                      /\ p.pc = "UpdateAppAdd" =>
                           app' = [app EXCEPT
                                     !.finalizers = Append(@, Finalizer),
                                     !.rv = @ + 1]
                      /\ p.pc = "UpdateAppRemove" =>
                           \/ /\ app.finalizers = <<Finalizer>> /\ ~app'.exists
                           \/ /\ app.finalizers # <<Finalizer>>
                              /\ app' = [app EXCEPT
                                   !.finalizers =
                                      SelectSeq(@, LAMBDA e : e # Finalizer),
                                   !.rv = @ + 1]
                      /\ p.pc = "StatusUpdate" =>
                           app' = [app EXCEPT
                                     !.status = pass'[w].appService.status,
                                     !.rv = @ + 1]
            /\ p.pc = "UpdateDep" =>
                 IF ~DepAsRead(p) THEN Rejected(w)
                 ELSE /\ pass'[w].err = "ok"
                      /\ app' = app /\ svc' = svc
                      /\ dep' = [dep EXCEPT !.replicas = p.deployment.replicas,
                                            !.rv = @ + 1]
            /\ (p.pc = "CreateDep" /\ dep.exists) =>
                 /\ dep' = dep /\ app' = app /\ svc' = svc
                 /\ pass'[w].pc = "done" /\ pass'[w].err = AlreadyExists
            /\ (p.pc = "CreateSvc" /\ svc.exists) =>
                 /\ dep' = dep /\ app' = app /\ svc' = svc
                 /\ pass'[w].pc = "done" /\ pass'[w].err = AlreadyExists]_vars

\* both passes read the record without the marker; the first one's update
\* went through, the second one's was rejected
C13_Witness ==
  /\ FetchedUnmarked(pass[1]) /\ FetchedUnmarked(pass[2])
  /\ pass[1].fetched = pass[2].fetched
  /\ Len(pass[1].ops) >= 2 /\ pass[1].ops[2] = [op |-> "UpdateApp", err |-> "ok"]
  /\ Returned(pass[2]) /\ pass[2].err = Conflict /\ pass[2].result = Done
  /\ OpNames(pass[2]) = <<"GetApp", "UpdateApp">>
  /\ app.exists /\ Marked(app) /\ MarkerCount(app) = 1

\* --------------------------------------------------------------------- C14
\* the ReconcilePhase constants of pkg/reconciler
PhaseInitializing == "Initializing"
PhaseReconciling == "Reconciling"
PhaseReady == "Ready"
PhaseFailed == "Failed"
PhaseDeleting == "Deleting"

ReconcilePhases ==
  {PhaseInitializing, PhaseReconciling, PhaseReady, PhaseFailed, PhaseDeleting}

\* C14 as stated: the phase the engine stores in a record's status is one of
\* Initializing, Reconciling, Ready, Failed, Deleting (stated here for
\* well-formed records).
C14_PhaseInReconcilePhases ==
  \A w \in Workers :
    (WroteStatus(pass[w]) /\ WellFormed(pass[w].appService.spec)) =>
      pass[w].appService.status.phase \in ReconcilePhases

\* C14 amended: the phase the engine stores in a record's status is one of
\* Initializing, Reconciling, Ready, Failed, Deleting, Running, Pending
\* (stated, like the original, for well-formed records).
C14_PhaseInReconcilePhasesOrRunningPending ==
  \A w \in Workers :
    (WroteStatus(pass[w]) /\ WellFormed(pass[w].appService.spec)) =>
      pass[w].appService.status.phase \in
        ReconcilePhases \cup {"Running", "Pending"}

C14_Witness ==
  \E w \in Workers :
    /\ WroteStatus(pass[w])
    /\ pass[w].fetched.status.phase = "Running"
    /\ pass[w].appService.status.phase = "Pending"
    /\ app.exists /\ app.status.phase = "Pending"
    /\ WellFormed(app.spec)

\* --------------------------------------------------------------------- C15
\* C15: the workload and the endpoint a pass creates have the name and
\* namespace of the record the pass holds, carry a controller owner link to
\* that record, and use the label set {app: record name}: the workload as
\* its pod selector and as its pod template labels, the endpoint as its
\* traffic selector; and while no other client has written under the key,
\* every stored workload and endpoint is so formed.
C15_OwnedAndLabelled ==
  /\ [](ext = 0 =>
        /\ dep.exists =>
             /\ dep.name = Name /\ dep.namespace = Namespace
             /\ dep.owner = [kind |-> "AppService", name |-> Name,
                             controller |-> TRUE]
             /\ dep.selector = [app |-> Name] /\ dep.podLabels = dep.selector
        /\ svc.exists =>
             /\ svc.name = Name /\ svc.namespace = Namespace
             /\ svc.owner = [kind |-> "AppService", name |-> Name,
                             controller |-> TRUE]
             /\ svc.selector = [app |-> Name]
        /\ (dep.exists /\ svc.exists) => svc.selector = dep.podLabels)
  /\ [][\A w \in Workers :
          LET a == pass[w].appService
          IN /\ StepOk(w, "CreateDep") =>
                  /\ ~dep.exists /\ dep'.exists
                  /\ dep'.name = a.name /\ dep'.namespace = a.namespace
                  /\ dep'.owner.kind = "AppService" /\ dep'.owner.name = a.name
                  /\ dep'.owner.controller
                  /\ dep'.selector = [app |-> a.name]
                  /\ dep'.podLabels = [app |-> a.name]
             /\ StepOk(w, "CreateSvc") =>
                  /\ ~svc.exists /\ svc'.exists
                  /\ svc'.name = a.name /\ svc'.namespace = a.namespace
                  /\ svc'.owner.kind = "AppService" /\ svc'.owner.name = a.name
                  /\ svc'.owner.controller
                  /\ svc'.selector = [app |-> a.name]]_vars

C15_Witness ==
  \E w \in Workers :
    LET p == pass[w]
    IN /\ ReturnedOk(p) /\ LastOp(p) = "CreateSvc" /\ p.prev = "CreateDep"
       /\ ~start.dep.exists /\ ~start.svc.exists
       /\ dep.exists /\ dep.owner.name = p.appService.name
       /\ svc.exists /\ svc.owner.name = p.appService.name
       /\ svc.selector = dep.podLabels /\ svc.selector = [app |-> "a"]

\* --------------------------------------------------------------------- C16
\* statuses a record may carry, whatever wrote them
FlowStatuses ==
  {EmptyStatus,
   [phase |-> "Running", availableReplicas |-> 3,
    conditions |-> <<[type |-> "Ready", status |-> "True",
                      reason |-> "DeploymentReady",
                      message |-> "All replicas are available",
                      lastTransitionTime |-> 0]>>,
    lastReconcileTime |-> 0],
   [phase |-> "Pending", availableReplicas |-> 0,
    conditions |-> <<[type |-> "Ready", status |-> "False",
                      reason |-> "DeploymentNotReady",
                      message |-> "Waiting for replicas",
                      lastTransitionTime |-> 1]>>,
    lastReconcileTime |-> 1],
   [phase |-> "Failed", availableReplicas |-> 5,
    conditions |-> <<[type |-> "Progressing", status |-> "Unknown",
                      reason |-> "x", message |-> "y",
                      lastTransitionTime |-> 0],
                     [type |-> "Ready", status |-> "Unknown",
                      reason |-> "x", message |-> "y",
                      lastTransitionTime |-> 0]>>,
    lastReconcileTime |-> 0]}

\* two stores that agree on everything but the record's status: the pass
\* runs on the one in app, dep, svc; start holds the other
FlowInit ==
  /\ \E s \in {x \in QuietStates : x.app.exists}, st1, st2 \in FlowStatuses :
       /\ app = [s.app EXCEPT !.status = st1]
       /\ dep = s.dep /\ svc = s.svc
       /\ start = [s EXCEPT !.app.status = st2]
  /\ now = 1
  /\ pass = [w \in Workers |-> IdlePass]
  /\ passes = 0
  /\ ext = 0

\* one pass, no store error, no other writer
FlowNext ==
  \/ \E w \in Serial :
       /\ pass[w].pc # "done"
       /\ Reconcile(w, "ok", MaxQuietPasses)

SpecFlow == FlowInit /\ [][FlowNext]_vars

\* lines 38-90: the operations a pass on record a issues on the workload d
\* and the endpoint s when none fails, with the object of each write
DependentOps(a, d, s, visited) ==
  IF a.deleting THEN <<>>
  ELSE IF ~d.exists
  THEN <<[op |-> "GetDep", obj |-> Absent],
         [op |-> "CreateDep", obj |-> deploymentForAppService(a, visited)]>>
  ELSE IF d.replicas # a.spec.replicas
  THEN <<[op |-> "GetDep", obj |-> Absent],
         [op |-> "UpdateDep",
          obj |-> [d EXCEPT !.replicas = a.spec.replicas]]>>
  ELSE IF ~s.exists
  THEN <<[op |-> "GetDep", obj |-> Absent],
         [op |-> "GetSvc", obj |-> Absent],
         [op |-> "CreateSvc", obj |-> serviceForAppService(a)]>>
  ELSE <<[op |-> "GetDep", obj |-> Absent],
         [op |-> "GetSvc", obj |-> Absent]>>

\* the operations on the workload and the endpoint in the log of p
DependentLog(p) ==
  SelectSeq(OpNames(p), LAMBDA o : o \in {"GetDep", "CreateDep", "UpdateDep",
                                          "GetSvc", "CreateSvc"})

\* the workloads that calls of deploymentForAppService on a may return
Synthesized(a) ==
  {deploymentForAppService(a, visited) :
     visited \in RangeOrders(a.spec.environment)}

\* C16 as stated: records that agree on name, namespace and spec and differ
\* in status are synthesized into identical workloads and identical
\* endpoints: any call on the one returns what any call on the other
\* returns.
C16_OneWayFlow ==
  \A w \in Serial :
    LET p == pass[w]
        twin == start.app
    IN p.fetched.exists =>
         /\ \A d1 \in Synthesized(p.fetched), d2 \in Synthesized(twin) : d1 = d2
         /\ serviceForAppService(p.fetched) = serviceForAppService(twin)

\* C16: records that agree on name, namespace and spec and differ in status
\* are synthesized into the same endpoint and, for each order in which the
\* environment is visited, into the same workload, so that the workloads
\* differ at most in the order of the env entries; and the pass run on the
\* one issues the operations on the workload and the endpoint, with the
\* objects, that are computed for the other.
C16_OneWayFlowUpToEnvOrder ==
  \A w \in Serial :
    LET p == pass[w]
        twin == start.app
    IN /\ p.fetched.exists =>
            /\ p.fetched.spec = twin.spec /\ p.fetched.name = twin.name
            /\ p.fetched.namespace = twin.namespace
            /\ \A visited \in RangeOrders(twin.spec.environment) :
                 deploymentForAppService(p.fetched, visited) =
                   deploymentForAppService(twin, visited)
            /\ Synthesized(p.fetched) = Synthesized(twin)
            /\ \A d1, d2 \in Synthesized(twin) :
                 /\ [d1 EXCEPT !.env = <<>>] = [d2 EXCEPT !.env = <<>>]
                 /\ {d1.env[i] : i \in 1..Len(d1.env)} =
                      {d2.env[i] : i \in 1..Len(d2.env)}
            /\ serviceForAppService(p.fetched) = serviceForAppService(twin)
            /\ \A st \in FlowStatuses :
                 /\ Synthesized([twin EXCEPT !.status = st]) = Synthesized(twin)
                 /\ serviceForAppService([twin EXCEPT !.status = st]) =
                      serviceForAppService(twin)
       /\ Returned(p) =>
            /\ p.err = "ok"
            /\ \E visited \in RangeOrders(twin.spec.environment) :
                 LET e == DependentOps(twin, start.dep, start.svc, visited)
                     last == IF e = <<>> THEN "" ELSE e[Len(e)].op
                 IN /\ DependentLog(p) = [i \in 1..Len(e) |-> e[i].op]
                    /\ last = "CreateDep" =>
                         /\ dep = [e[Len(e)].obj EXCEPT !.rv = 1]
                         /\ svc = start.svc
                    /\ last = "UpdateDep" =>
                         /\ dep = [e[Len(e)].obj EXCEPT !.rv = @ + 1]
                         /\ svc = start.svc
                    /\ last = "CreateSvc" =>
                         /\ svc = [e[Len(e)].obj EXCEPT !.rv = 1]
                         /\ dep = start.dep
                    /\ last \in {"", "GetSvc"} =>
                         dep = start.dep /\ svc = start.svc

\* a pass on a record reported Running, whose twin is reported Failed,
\* created the workload with the env entries in the order B, A
C16_Witness ==
  \E w \in Serial :
    LET p == pass[w]
    IN /\ ReturnedOk(p) /\ LastOp(p) = "CreateDep"
       /\ p.fetched.spec.environment = EnvAB
       /\ p.fetched.status.phase = "Running"
       /\ start.app.status.phase = "Failed"
       /\ ~start.dep.exists /\ dep.exists
       /\ dep.env = <<[name |-> "B", value |-> "2"],
                      [name |-> "A", value |-> "1"]>>
       /\ dep.resources.requests = "empty"

\* --------------------------------------------------------------------- C17
\* C17: with no other writer and no store error, when the workload exists
\* and the record's image differs from the workload's container image (the
\* record was patched), the passes the change triggers update the workload:
\* by the time a pass has found nothing left to create or patch, has
\* written status and returned the delayed retry, the workload's container
\* image is the record's image.
C17_ImageFollowsSpec ==
  \A w \in Serial :
    (/\ WroteStatus(pass[w])
     /\ pass[w].result = RequeueAfter(RequeueAfterSeconds)
     /\ app.exists /\ ~app.deleting /\ WellFormed(app.spec)
     /\ dep.exists)
      => dep.image = app.spec.image

\* --------------------------------------------------------------------- C19
\* C19: a pass whose fetch finds no record under the key returns Done with
\* no error, having issued the fetch and nothing else, and nothing in the
\* store is created, updated or deleted by it.
C19_AbsentRecordDone ==
  /\ [](\A w \in Workers :
          LET p == pass[w]
          IN (p.ops # <<>> /\ p.ops[1].err = NotFound) =>
               /\ Returned(p) /\ p.result = Done /\ p.err = "ok"
               /\ OpNames(p) = <<"GetApp">>
               /\ ~p.fetched.exists)
  /\ [][\A w \in Workers :
          (pass[w].pc \in {"idle", "done"} /\ pass'[w] # pass[w]
             /\ ~app.exists /\ pass'[w].ops[1].err # TransientIO) =>
            /\ pass'[w].ops = <<[op |-> "GetApp", err |-> NotFound]>>
            /\ pass'[w].pc = "done" /\ pass'[w].result = Done
            /\ pass'[w].err = "ok"
            /\ app' = app /\ dep' = dep /\ svc' = svc]_vars

C19_Witness ==
  \E w \in Workers :
    LET p == pass[w]
    IN /\ Returned(p) /\ p.err = "ok" /\ p.result = Done
       /\ p.ops = <<[op |-> "GetApp", err |-> NotFound]>>
       /\ p.prev = "UpdateApp"
       /\ start.app.exists /\ ~app.exists
       /\ dep.exists /\ dep = start.dep /\ svc = start.svc

\* --------------------------------------------------------------------- C20
\* C20: the marker leaves the stored record only by the update of a pass
\* that read the record with deletion requested, after cleanupResources
\* returned no error, and only when that update is accepted; an engine step
\* never takes the marker from a record that is not marked for deletion
\* and never puts it on one that is; and when the update that removes the
\* marker fails the stored record is as it was.
C20_FinalizerLifecycle ==
  /\ [](\A w \in Workers :
          LET p == pass[w]
          IN /\ p.pc = "UpdateAppRemove" =>
                  /\ p.fetched.deleting /\ Marked(p.fetched)
                  /\ cleanupResources(p.fetched) = "ok"
                  /\ ~Marked(p.appService)
             /\ p.pc = "UpdateAppAdd" =>
                  ~p.fetched.deleting /\ ~Marked(p.fetched))
  /\ [][\A w \in Workers :
          pass'[w] # pass[w] =>
            /\ (app.exists /\ Marked(app) /\ ~(app'.exists /\ Marked(app'))) =>
                 /\ pass[w].pc = "UpdateAppRemove"
                 /\ app.deleting /\ pass[w].fetched.deleting
                 /\ pass'[w].err = "ok"
            /\ (app.exists /\ ~Marked(app) /\ app'.exists /\ Marked(app')) =>
                 /\ pass[w].pc = "UpdateAppAdd"
                 /\ ~app.deleting /\ ~app'.deleting
            /\ (app.exists /\ ~app.deleting /\ Marked(app)) =>
                 (app'.exists /\ Marked(app'))
            /\ (app.exists /\ app.deleting /\ ~Marked(app)) =>
                 (app'.exists => ~Marked(app'))
            /\ (pass[w].pc = "UpdateAppRemove" /\ pass'[w].err # "ok") =>
                 app' = app]_vars

C20_Witness ==
  \E w \in Workers :
    LET p == pass[w]
    IN /\ Returned(p) /\ p.err = TransientIO /\ p.result = Done
       /\ p.ops = <<[op |-> "GetApp", err |-> "ok"],
                    [op |-> "UpdateApp", err |-> TransientIO]>>
       /\ p.fetched.deleting /\ Marked(p.fetched)
       /\ app.exists /\ app.deleting /\ Marked(app)
       /\ p.prev = "CreateDep"

\* --------------------------------------------------------------------- C21
\* C21: no step of a pass changes or removes an endpoint that is stored,
\* whatever its port and selector and whatever the record's spec; a pass
\* issues the endpoint's create only after its fetch found none.
C21_EndpointLeftAlone ==
  /\ [](\A w \in Workers :
          LET p == pass[w]
          IN /\ p.pc = "CreateSvc" =>
                  p.ops[Len(p.ops)] = [op |-> "GetSvc", err |-> NotFound]
             /\ \A i \in 1..Len(p.ops) :
                  p.ops[i].op = "CreateSvc" =>
                    (i > 1 /\ p.ops[i - 1] = [op |-> "GetSvc", err |-> NotFound]))
  /\ [][\A w \in Workers :
          (pass'[w] # pass[w] /\ svc.exists) => svc' = svc]_vars

C21_Witness ==
  \E w \in Workers :
    LET p == pass[w]
    IN /\ WroteStatus(p)
       /\ p.fetched.spec.port = 8080
       /\ svc.exists /\ svc.port = 80 /\ svc.targetPort = 80
       /\ svc = start.svc
       /\ serviceForAppService(p.fetched).port # svc.port

\* --------------------------------------------------------------------- C22
\* the pass of w read a record marked for deletion that has no marker
FetchedDeletingUnmarked(p) ==
  p.fetched.exists /\ p.fetched.deleting /\ ~Marked(p.fetched)

\* C22: a pass that reads a record with deletion requested and without the
\* marker returns Done with no error straight after the fetch: the fetch is
\* its only operation, and the step leaves the record, the workload and the
\* endpoint as they are.
C22_DeletingUnmarkedDone ==
  /\ [](\A w \in Workers :
          LET p == pass[w]
          IN FetchedDeletingUnmarked(p) =>
               /\ Returned(p) /\ p.result = Done /\ p.err = "ok"
               /\ p.ops = <<[op |-> "GetApp", err |-> "ok"]>>
               /\ p.appService = p.fetched)
  /\ [][\A w \in Workers :
          (pass'[w] # pass[w] /\ FetchedDeletingUnmarked(pass'[w])) =>
            (app' = app /\ dep' = dep /\ svc' = svc)]_vars

C22_Witness ==
  \E w \in Workers :
    LET p == pass[w]
    IN /\ FetchedDeletingUnmarked(p) /\ Returned(p)
       /\ p.prev = "UpdateApp"
       /\ app.exists /\ app.deleting /\ app.finalizers = <<OtherFinalizer>>
       /\ app = p.fetched
       /\ dep.exists /\ svc.exists

\* --------------------------------------------------------------------- C23
\* C23: updateCondition never shortens or reorders the list: every position
\* of the list before the call holds an entry of the same type after it,
\* and an entry of another type than the call's is the same entry; a call
\* with the status its type's entry has leaves the whole list as it was
\* (reason, message and lastTransitionTime of that entry too); a call with
\* another status puts the new entry in that entry's position; a call for a
\* type not in the list puts the new entry after the last one.
C23_ConditionFrame ==
  pass # <<>> =>
    LET cs == app.status.conditions
        before == pass.before
        n == Len(before)
        present == \E j \in 1..n : before[j].type = pass.type
        same == \E j \in 1..n : /\ before[j].type = pass.type
                                /\ before[j].status = pass.status
    IN /\ Len(cs) >= n
       /\ \A j \in 1..n :
            /\ cs[j].type = before[j].type
            /\ before[j].type # pass.type => cs[j] = before[j]
       /\ same => cs = before
       /\ (present /\ ~same) =>
            /\ Len(cs) = n
            /\ \A j \in 1..n :
                 before[j].type = pass.type =>
                   /\ cs[j].status = pass.status
                   /\ cs[j].reason = pass.reason
                   /\ cs[j].message = pass.message
                   /\ cs[j].lastTransitionTime = pass.t
       /\ ~present =>
            /\ Len(cs) = n + 1
            /\ SubSeq(cs, 1, n) = before
            /\ cs[n + 1].type = pass.type /\ cs[n + 1].status = pass.status
            /\ cs[n + 1].reason = pass.reason
            /\ cs[n + 1].lastTransitionTime = pass.t

C23_Witness ==
  /\ pass # <<>> /\ Len(pass.before) = 2
  /\ pass.before[1].type = pass.type /\ pass.before[1].status # pass.status
  /\ pass.before[1].lastTransitionTime = 1 /\ pass.t = 2
  /\ Len(app.status.conditions) = 2
  /\ app.status.conditions[1].status = pass.status
  /\ app.status.conditions[1].lastTransitionTime = 2
  /\ app.status.conditions[2] = pass.before[2]

\* --------------------------------------------------------------------- C24
\* C24: a step of a pass never brings a record into the store, never
\* changes the name, namespace, spec or deletion mark of the stored record,
\* and takes a record out of the store in one case only: its update that
\* removes the last finalizer of a record whose deletion was requested (the
\* store then completes that deletion).  What an engine step changes in the
\* stored record is its finalizer list (and that only by the marker) or its
\* status, with the version stamp.
C24_RecordFrame ==
  [][\A w \in Workers :
       pass'[w] # pass[w] =>
         /\ ~app.exists => ~app'.exists
         /\ (app.exists /\ ~app'.exists) =>
              /\ pass[w].pc = "UpdateAppRemove"
              /\ app.deleting /\ app.finalizers = <<Finalizer>>
         /\ (app.exists /\ app'.exists) =>
              /\ app'.name = app.name /\ app'.namespace = app.namespace
              /\ app'.spec = app.spec /\ app'.deleting = app.deleting
              /\ SelectSeq(app'.finalizers, LAMBDA e : e # Finalizer) =
                   SelectSeq(app.finalizers, LAMBDA e : e # Finalizer)
              /\ app'.finalizers # app.finalizers =>
                   (app'.status = app.status
                      /\ pass[w].pc \in {"UpdateAppAdd", "UpdateAppRemove"})
              /\ app'.status # app.status =>
                   (app'.finalizers = app.finalizers
                      /\ pass[w].pc = "StatusUpdate")]_vars

C24_Witness ==
  \E w \in Workers :
    LET p == pass[w]
    IN /\ WroteStatus(p) /\ p.prev = "CreateSvc"
       /\ start.app.exists /\ app.exists
       /\ start.app.status = EmptyStatus /\ app.status # EmptyStatus
       /\ ext = 1 /\ start.app.spec.replicas = 3 /\ app.spec.replicas = 5
       /\ app.finalizers = start.app.finalizers

\* --------------------------------------------------------------------- C25
\* the creates and updates of the workload and the endpoint in the log of p
Mutations(p) ==
  {i \in 1..Len(p.ops) : p.ops[i].op \in {"CreateDep", "UpdateDep", "CreateSvc"}}

\* C25: a pass issues at most one create or update of the workload or the
\* endpoint; that operation is its last, and when it succeeds the pass
\* returns immediate retry.  A pass issues the status write only when it
\* issued none of them, having read a workload whose replica count is the
\* record's and an endpoint; the delayed retry of 30 is returned by a pass
\* whose status write succeeded and by no other, and no other delay is ever
\* returned.
C25_OneMutationPerPass ==
  \A w \in Workers :
    LET p == pass[w]
        n == Len(p.ops)
    IN /\ Cardinality(Mutations(p)) <= 1
       /\ \A i \in Mutations(p) :
            /\ i = n /\ Returned(p)
            /\ p.err = "ok" => p.result = Requeue
       /\ p.result.requeueAfter \in {0, RequeueAfterSeconds}
       /\ p.result.requeue => (ReturnedOk(p) /\ Mutations(p) # {})
       /\ (Issued(p, "StatusUpdate") \/ p.pc = "StatusUpdate") =>
            /\ Mutations(p) = {}
            /\ \E i, j \in 1..n :
                 /\ i < j
                 /\ p.ops[i] = [op |-> "GetDep", err |-> "ok"]
                 /\ p.ops[j] = [op |-> "GetSvc", err |-> "ok"]
            /\ p.deployment.exists
            /\ p.deployment.replicas = p.appService.spec.replicas
       /\ p.result = RequeueAfter(RequeueAfterSeconds) <=> WroteStatus(p)

C25_Witness ==
  \E w \in Workers :
    LET p == pass[w]
    IN /\ ReturnedOk(p) /\ p.result = RequeueAfter(RequeueAfterSeconds)
       /\ p.prev = "UpdateDep"
       /\ OpNames(p) = <<"GetApp", "GetDep", "GetSvc", "StatusUpdate">>
       /\ dep.exists /\ svc.exists /\ dep.replicas = p.appService.spec.replicas
       /\ dep.replicas # start.dep.replicas

\* ---------------------------------------------------------- ResourceWatcher
\* pkg/watcher: pass is the ResourceWatcher (informer, handlers, whether
\* stopCh is closed), with where a call of Start stands and what it
\* returned, whether the informer carries the watcher's callbacks and
\* whether it runs, the events on the watched resource since Start returned
\* (each with the handlers registered at that time), and the handler calls
\* made.  passes counts AddEventHandler calls, ext the events.
EventAdded == "ADDED"
EventModified == "MODIFIED"
EventDeleted == "DELETED"

EventHandlers == {"h1", "h2"}

SyncFailed == "failed to sync cache"

\* lines 44-50: the informer field is left nil, stopCh is open
NewResourceWatcher ==
  [informer |-> "nil", handlers |-> <<>>, stopped |-> FALSE,
   panicked |-> FALSE, pc |-> "idle", started |-> FALSE, err |-> "ok",
   registered |-> FALSE, running |-> FALSE,
   events |-> <<>>, delivered |-> <<>>]

WatchInit ==
  /\ pass = NewResourceWatcher
  /\ app = Absent /\ dep = Absent /\ svc = Absent
  /\ start = [app |-> Absent, dep |-> Absent, svc |-> Absent]
  /\ now = 1
  /\ passes = 0
  /\ ext = 0

\* lines 52-54
AddEventHandler(handler) ==
  /\ ~pass.panicked
  /\ passes < MaxCalls
  /\ passes' = passes + 1
  /\ pass' = [pass EXCEPT !.handlers = Append(@, handler)]
  /\ UNCHANGED <<start, app, dep, svc, now, ext>>

\* lines 56-79: Start is called; when there is an informer the callbacks
\* are given to it and it is run in a goroutine, which ends at once when
\* stopCh is already closed
Start ==
  /\ ~pass.panicked
  /\ pass.pc = "idle" /\ ~pass.started
  /\ pass' = IF pass.informer # "nil"
             THEN [pass EXCEPT !.pc = "Start", !.registered = TRUE,
                               !.running = ~pass.stopped]
             ELSE [pass EXCEPT !.pc = "Start"]
  /\ UNCHANGED <<start, app, dep, svc, now, passes, ext>>

\* lines 81-86: with an informer Start waits for the cache and returns an
\* error when stopCh is closed before the cache has synced; without one it
\* returns nil
StartReturn ==
  /\ ~pass.panicked
  /\ pass.pc = "Start"
  /\ \E synced \in BOOLEAN :
       /\ pass.informer = "nil" => synced
       /\ pass.informer # "nil" =>
            /\ synced => pass.running
            /\ ~synced => pass.stopped
       /\ pass' = [pass EXCEPT !.pc = "idle", !.started = TRUE,
                               !.err = IF synced THEN "ok" ELSE SyncFailed]
  /\ UNCHANGED <<start, app, dep, svc, now, passes, ext>>

\* lines 89-91 (and StopAll, lines 140-144, for each watcher of a
\* WatchManager): stopCh is closed, which ends the informer; closing it a
\* second time panics
Stop ==
  /\ ~pass.panicked
  /\ pass' = IF pass.stopped
             THEN [pass EXCEPT !.panicked = TRUE]
             ELSE [pass EXCEPT !.stopped = TRUE, !.running = FALSE]
  /\ UNCHANGED <<start, app, dep, svc, now, passes, ext>>

\* lines 62-76: the callback of the informer calls every handler in order
Callback(type) ==
  CASE type = EventAdded -> "OnAdd"
    [] type = EventModified -> "OnUpdate"
    [] type = EventDeleted -> "OnDelete"

Calls(handlers, type) ==
  [i \in 1..Len(handlers) |-> [handler |-> handlers[i], call |-> Callback(type)]]

\* an add, update or delete of the watched resource once Start has
\* returned: a running informer that carries the callbacks calls them
ResourceEvent(type) ==
  /\ ~pass.panicked
  /\ pass.started
  /\ ext < MaxCalls
  /\ ext' = ext + 1
  /\ pass' = [pass EXCEPT
       !.events = Append(@, [type |-> type, handlers |-> pass.handlers]),
       !.delivered = IF pass.registered /\ pass.running
                     THEN @ \o Calls(pass.handlers, type)
                     ELSE @]
  /\ UNCHANGED <<start, app, dep, svc, now, passes>>

WatchNext ==
  \/ \E handler \in EventHandlers : AddEventHandler(handler)
  \/ Start
  \/ StartReturn
  \/ Stop
  \/ \E type \in {EventAdded, EventModified, EventDeleted} : ResourceEvent(type)

SpecWatch == WatchInit /\ [][WatchNext]_vars

\* --------------------------------------------------------------------- C26
\* the handler calls that deliver the events es to the handlers registered
\* at the time of each, in registration order
RECURSIVE Deliveries(_)
Deliveries(es) ==
  IF es = <<>> THEN <<>>
  ELSE Calls(es[1].handlers, es[1].type) \o Deliveries(Tail(es))

\* C26: once Start has returned without error, and while the watcher has
\* not been stopped, every add, update and delete event on the watched
\* resource has been delivered to every handler registered with
\* AddEventHandler, in registration order.
C26_EventsDelivered ==
  (pass.started /\ pass.err = "ok" /\ ~pass.stopped) =>
    pass.delivered = Deliveries(pass.events)

====
